---- MODULE Spec2Model ----
(***************************************************************************)
(* Model of the AlRoute menu tree (src/src/locator/al-route.types.ts) and  *)
(* of the part of the location registry it consults.                       *)
(*                                                                         *)
(* JavaScript strings are sequences of one-character strings, so that      *)
(* concatenation, indexOf, substring and the token replacement of          *)
(* evaluateHref are computed character by character.                       *)
(***************************************************************************)
EXTENDS Integers, Sequences, FiniteSets, TLC

VARIABLES
    tree,             \* per node: parent, children, and which object its
                      \* property overlay is
    definition,       \* the immutable AlRouteDefinition of every node
    route,            \* per node: visible, activated, href, baseHREF
    properties,       \* per node: the property overlay
    currentUrl,       \* host.currentUrl
    routeParameters,  \* host.routeParameters
    entitlements,     \* the state host.evaluate consults
    locations,        \* the registry's descriptors, in registration order
    context,          \* the registry's Context (environment, residency)
    condition,        \* the condition handed to evaluateCondition (SpecCond)
    last              \* the last operation performed and what it returned

vars == <<tree, definition, route, properties, currentUrl, routeParameters,
          entitlements, locations, context, condition, last>>

-----------------------------------------------------------------------------
(* JavaScript values *)

\* null, for href and baseHREF: a sequence no string can equal
Null == <<"<null>">>

\* String(null), what indexOf and + make of a null operand
NullText == <<"n", "u", "l", "l">>

\* the three values the activated field and refresh's result can take
JsTrue == "true"
JsFalse == "false"
JsUndefined == "undefined"

ToStr(s) == IF s = Null THEN NullText ELSE s

\* !x for a string-or-null
Falsy(s) == s = Null \/ s = <<>>

\* a || b on the values of activated
JsOr(a, b) == IF a = JsTrue THEN a ELSE b

\* s.indexOf(p) === 0
StartsWith(s, p) == Len(p) <= Len(s) /\ SubSeq(s, 1, Len(p)) = p

\* s.indexOf(c), 1-based; 0 when c does not occur
RECURSIVE IndexOfFrom(_, _, _)
IndexOfFrom(s, c, i) ==
    IF i > Len(s) THEN 0
    ELSE IF s[i] = c THEN i
    ELSE IndexOfFrom(s, c, i + 1)

IndexOf(s, c) == IndexOfFrom(s, c, 1)

\* s.replace(c, r): the first occurrence only, as a string pattern does
ReplaceFirst(s, c, r) ==
    LET i == IndexOf(s, c)
    IN IF i = 0 THEN s
       ELSE SubSeq(s, 1, i - 1) \o r \o SubSeq(s, i + 1, Len(s))

-----------------------------------------------------------------------------
(* Regular expressions, for the subset definition.matches uses: a literal  *)
(* character, an escaped character, '.', each optionally followed by '*',  *)
(* between '^' and '$'.                                                    *)

RECURSIVE ReMatch(_, _, _, _)
ReMatch(p, i, s, j) ==
    IF i > Len(p) THEN j > Len(s)
    ELSE LET esc == p[i] = "\\" /\ i < Len(p)
             alen == IF esc THEN 2 ELSE 1
             AtomOk == j <= Len(s)
                       /\ IF esc THEN s[j] = p[i + 1]
                          ELSE (p[i] = "." \/ p[i] = s[j])
             star == i + alen <= Len(p) /\ p[i + alen] = "*"
         IN IF star
            THEN ReMatch(p, i + alen + 1, s, j)
                 \/ (AtomOk /\ ReMatch(p, i, s, j + 1))
            ELSE AtomOk /\ ReMatch(p, i + alen, s, j + 1)

\* new RegExp( re ).test( s ), re of the form ^...$
RegExpTest(re, s) ==
    /\ Len(re) >= 2
    /\ re[1] = "^"
    /\ re[Len(re)] = "$"
    /\ ReMatch(SubSeq(re, 2, Len(re) - 1), 1, s, 1)

-----------------------------------------------------------------------------
(* The location registry.  Its source is not part of src/; it is modelled  *)
(* from the specification (4.1) and from test/al-locator.spec.ts.          *)

Unset == "<unset>"

Descriptor(id, env, res, uri) ==
    [locTypeId |-> id, environment |-> env, residency |-> res, uri |-> uri]

\* what getNode returns when nothing matches
NoNode == Descriptor("<null>", "<null>", "<null>", Null)

DefaultContext == [environment |-> "production", residency |-> "US"]

OverviewUI == "cd17:overview"
IncidentsUI == "cd17:incidents"
InvalidLocation == "invalid:location"

uriOverviewUS == <<"u", "o">>
uriOverviewInt == <<"i", "o">>
uriIncidentsUS == <<"u", "i">>

\* the descriptors of the two applications, and of the first alone
NodesBoth ==
    << Descriptor(OverviewUI, "production", "US", uriOverviewUS),
       Descriptor(OverviewUI, "integration", Unset, uriOverviewInt),
       Descriptor(IncidentsUI, "production", "US", uriIncidentsUS) >>

NodesOverview == SubSeq(NodesBoth, 1, 2)

LocationSets == {NodesBoth, NodesOverview}

\* the acting URLs, and the context each built-in pattern infers from them
ActingUris ==
    { "https://console.overview.alertlogic.com/#/remediations-scan-status/2",
      "https://console.overview.product.dev.alertlogic.com/#/remediations-scan-status/2",
      "useDefault" }

ContextOf(url) ==
    CASE url = "https://console.overview.alertlogic.com/#/remediations-scan-status/2"
            -> [environment |-> "production", residency |-> "US"]
      [] url = "https://console.overview.alertlogic.co.uk/#/remediations-scan-status/2"
            -> [environment |-> "production", residency |-> "EMEA"]
      [] url = "https://console.overview.product.dev.alertlogic.com/#/remediations-scan-status/2"
            -> [environment |-> "integration", residency |-> "US"]
      [] url = "http://localhost:4213/#/remediations-scan-status/2"
            -> [environment |-> "development", residency |-> "US"]
      [] OTHER -> [environment |-> "<no match>", residency |-> "<no match>"]

Recognized(url) == ContextOf(url).environment /= "<no match>"

MatchesContext(d, id, ctx) ==
    /\ d.locTypeId = id
    /\ d.environment = ctx.environment
    /\ (d.residency = Unset \/ d.residency = ctx.residency)

\* getNode that falls back to a descriptor of another context
getNodeIn_FallsBack(locs, ctx, id) ==
    LET hits == SelectSeq(locs, LAMBDA d : MatchesContext(d, id, ctx))
        others == SelectSeq(locs, LAMBDA d : d.locTypeId = id)
    IN IF Len(hits) > 0 THEN hits[1]
       ELSE IF Len(others) > 0 THEN others[1] ELSE NoNode

\* registry.getNode( locTypeId ) in the registry state (locs, ctx)
getNodeIn(locs, ctx, id) ==
    LET hits == SelectSeq(locs, LAMBDA d : MatchesContext(d, id, ctx))
    IN IF Len(hits) = 0 THEN NoNode ELSE hits[1]

getNode(id) == getNodeIn(locations, context, id)

-----------------------------------------------------------------------------
(* Conditions (AlRouteCondition) and the host's evaluate callback.         *)

NoRule == "<undefined>"
NoEntitlements == "<undefined>"

\* a condition that only names an entitlement
Leaf(key) ==
    [rule |-> NoRule, hasConditions |-> FALSE, conditions |-> <<>>,
     entitlements |-> key]

\* a condition with a rule and a list of child conditions
Group(rule, conds) ==
    [rule |-> rule, hasConditions |-> TRUE, conditions |-> conds,
     entitlements |-> NoEntitlements]

\* the routing host of the tests: fakeEntitlements[ condition.entitlements ]
hostEvaluate(cond) ==
    IF cond.entitlements /= NoEntitlements /\ cond.entitlements /= ""
       /\ cond.entitlements \in DOMAIN entitlements
    THEN entitlements[cond.entitlements]
    ELSE FALSE

\* condition.rule && condition.conditions
IsGroup(cond) == cond.rule /= NoRule /\ cond.rule /= "" /\ cond.hasConditions

RECURSIVE evaluateCondition_AllNeedsOne(_)
\* evaluateCondition with 'all' asking for at least one child
evaluateCondition_AllNeedsOne(cond) ==
    IF IsGroup(cond)
    THEN LET passed == Cardinality({i \in 1..Len(cond.conditions) :
                                       evaluateCondition_AllNeedsOne(cond.conditions[i])})
         IN IF cond.rule = "any" THEN passed > 0
            ELSE IF cond.rule = "all" THEN passed > 0 /\ passed = Len(cond.conditions)
            ELSE passed = 0
    ELSE hostEvaluate(cond)

RECURSIVE evaluateCondition(_)
RECURSIVE CountPassed(_, _)

\* the forEach of evaluateCondition: how many of conds[i..] evaluate true
CountPassed(conds, i) ==
    IF i > Len(conds) THEN 0
    ELSE (IF evaluateCondition(conds[i]) THEN 1 ELSE 0) + CountPassed(conds, i + 1)

evaluateCondition(cond) ==
    IF IsGroup(cond)
    THEN LET total == Len(cond.conditions)
             passed == CountPassed(cond.conditions, 1)
         IN IF cond.rule = "any" THEN passed > 0
            ELSE IF cond.rule = "all" THEN passed = total
            ELSE passed = 0
    ELSE hostEvaluate(cond)

\* the calls of an evaluateCondition whose 'any' stops at the first child
\* that passes
RECURSIVE hostCalls_ShortCircuit(_)
hostCalls_ShortCircuit(cond) ==
    IF IsGroup(cond)
    THEN LET F[i \in 0..Len(cond.conditions)] ==
                 IF i = 0 THEN <<>>
                 ELSE IF cond.rule = "any"
                         /\ \E j \in 1..(i - 1) : evaluateCondition(cond.conditions[j])
                 THEN F[i - 1]
                 ELSE F[i - 1] \o hostCalls_ShortCircuit(cond.conditions[i])
         IN F[Len(cond.conditions)]
    ELSE <<cond>>

\* the conditions evaluateCondition( cond ) hands to host.evaluate, in the
\* order of the calls: the forEach visits every child
RECURSIVE hostCalls(_)
hostCalls(cond) ==
    IF IsGroup(cond)
    THEN LET F[i \in 0..Len(cond.conditions)] ==
                 IF i = 0 THEN <<>>
                 ELSE F[i - 1] \o hostCalls(cond.conditions[i])
         IN F[Len(cond.conditions)]
    ELSE <<cond>>

-----------------------------------------------------------------------------
(* Route definitions (AlRouteDefinition).  The definition tree is flat:    *)
(* node 1 is the root, Children gives each node's children in order.       *)

Nodes == {1, 2, 3, 4}
Root == 1
NoParent == 0

\* definition.children of node n's definition
DefChildren(n) ==
    CASE n = 1 -> <<2, 3>>
      [] n = 2 -> <<4>>
      [] OTHER -> <<>>

\* this.children and this.parent of node n
Children(n) == tree[n].children

Parent(n) == tree[n].parent

\* the objects this.properties can be: the node's own, or the one of its
\* definition
OwnObject == "own"
DefinitionObject == "definition"

\* Object.assign that hands back its source
ObjectAssign_ReturnsSource(target, source) == source

\* Object.assign( target, source ) copies into the target and returns it
ObjectAssign(target, source) == target

\* a node as its field initializers leave it
NewNode == [parent |-> NoParent, children |-> <<>>, overlay |-> OwnObject]

RECURSIVE NewAlRoute(_, _, _, _)
RECURSIVE PushChildren(_, _, _, _)

\* the constructor's loop over definition.children from index i on: every
\* child is constructed with this node for parent and pushed
PushChildren(t, defs, n, i) ==
    IF i > Len(DefChildren(n)) THEN t
    ELSE PushChildren([NewAlRoute(t, defs, DefChildren(n)[i], n) EXCEPT
                          ![n].children = Append(@, DefChildren(n)[i])],
                      defs, n, i + 1)

\* new AlRoute( host, definition, parent ) for node n, up to its refresh:
\* the nodes constructed so far are in t
NewAlRoute(t, defs, n, parent) ==
    LET made == PushChildren([t EXCEPT ![n] = [NewNode EXCEPT !.parent = parent]],
                             defs, n, 1)
    IN IF defs[n].hasProperties
       THEN [made EXCEPT ![n].overlay = ObjectAssign(OwnObject, DefinitionObject)]
       ELSE made

\* action.path values
pathA == <<"/", "a">>
pathB == <<"/", "b">>
pathParam == <<"/", ":", "x">>
pathSlash == <<"/">>

NoAction == [type |-> "<undefined>", location |-> "<undefined>", path |-> Null]
Link(loc, path) == [type |-> "link", location |-> loc, path |-> path]

\* a definition without the optional members
Plain(caption) ==
    [caption |-> caption, hasAction |-> FALSE, action |-> NoAction,
     hasVisible |-> FALSE, visible |-> Leaf(NoEntitlements),
     hasMatches |-> FALSE, matches |-> <<>>, bubble |-> FALSE,
     hasProperties |-> TRUE, properties |-> <<>>]

WithLink(d, loc, path) == [d EXCEPT !.hasAction = TRUE, !.action = Link(loc, path)]
WithVisible(d, cond) == [d EXCEPT !.hasVisible = TRUE, !.visible = cond]
WithMatches(d, ms) == [d EXCEPT !.hasMatches = TRUE, !.matches = ms]
WithBubble(d) == [d EXCEPT !.bubble = TRUE]

\* the menu items the definition trees are built from
ItemOverview == WithLink(Plain("Overview"), OverviewUI, pathA)
ItemIncidents ==
    WithVisible(WithLink(Plain("Incidents"), IncidentsUI, pathB), Leaf("a"))
ItemParam == WithBubble(WithLink(Plain("Param"), OverviewUI, pathParam))
ItemGroup == WithBubble(WithVisible(Plain("Group"), Group("none", <<Leaf("a")>>)))
ItemMatches == WithMatches(WithLink(Plain("Matches"), OverviewUI, pathSlash),
                           << <<"/", ".", "*">> >>)
\* a link to a location type the registry has no node for
ItemInvalid == WithLink(Plain("Invalid"), InvalidLocation, pathA)

\* the items each position of the tree is filled from
ItemsAt(n) ==
    CASE n = 2 -> {ItemMatches, ItemParam, ItemGroup, ItemInvalid}
      [] n = 3 -> {ItemOverview, ItemIncidents}
      [] OTHER -> {ItemOverview, ItemIncidents, ItemParam}

\* every definition tree: a plain root over three items
Definitions ==
    { [n \in Nodes |-> IF n = Root THEN Plain("Test Menu") ELSE f[n]] :
        f \in { g \in [Nodes \ {Root} -> UNION {ItemsAt(n) : n \in Nodes \ {Root}}] :
                    \A n \in Nodes \ {Root} : g[n] \in ItemsAt(n) } }

\* host.currentUrl values
Urls ==
    { uriOverviewUS \o pathA,
      uriOverviewUS \o pathB,
      uriIncidentsUS \o pathB }

\* host.routeParameters values
ParameterSets == { <<>>, (<<"x">> :> <<"b">>) }

\* the values of the entitlement 'a'
EntitlementSets == { ("a" :> TRUE), ("a" :> FALSE) }

-----------------------------------------------------------------------------
(* AlRoute.evaluateHref                                                    *)

\* the characters of /\:[a-zA-Z_]+/ after the colon
TokenChars ==
    { "a", "b", "c", "d", "e", "f", "g", "h", "i", "j", "k", "l", "m",
      "n", "o", "p", "q", "r", "s", "t", "u", "v", "w", "x", "y", "z",
      "A", "B", "C", "D", "E", "F", "G", "H", "I", "J", "K", "L", "M",
      "N", "O", "P", "Q", "R", "S", "T", "U", "V", "W", "X", "Y", "Z", "_" }

\* the last index of the run of token characters that starts at i
RECURSIVE TokenEnd(_, _)
TokenEnd(path, i) ==
    IF i < Len(path) /\ path[i + 1] \in TokenChars
    THEN TokenEnd(path, i + 1)
    ELSE i

\* the replacement without the g flag: the first token only
RECURSIVE Substitute_FirstOnly(_, _)
Substitute_FirstOnly(path, i) ==
    IF i > Len(path) THEN [text |-> <<>>, missing |-> FALSE]
    ELSE IF path[i] = ":" /\ i < Len(path) /\ path[i + 1] \in TokenChars
    THEN LET e == TokenEnd(path, i + 1)
             variableId == SubSeq(path, i + 1, e)
             rest == SubSeq(path, e + 1, Len(path))
         IN IF variableId \in DOMAIN routeParameters
            THEN [text |-> routeParameters[variableId] \o rest, missing |-> FALSE]
            ELSE [text |-> <<":">> \o variableId \o rest, missing |-> TRUE]
    ELSE LET rest == Substitute_FirstOnly(path, i + 1)
         IN [text |-> <<path[i]>> \o rest.text, missing |-> rest.missing]

\* the replacement with nothing put in place of a token without parameter
RECURSIVE Substitute_DropsMissing(_, _)
Substitute_DropsMissing(path, i) ==
    IF i > Len(path) THEN [text |-> <<>>, missing |-> FALSE]
    ELSE IF path[i] = ":" /\ i < Len(path) /\ path[i + 1] \in TokenChars
    THEN LET e == TokenEnd(path, i + 1)
             variableId == SubSeq(path, i + 1, e)
             rest == Substitute_DropsMissing(path, e + 1)
         IN IF variableId \in DOMAIN routeParameters
            THEN [text |-> routeParameters[variableId] \o rest.text,
                  missing |-> rest.missing]
            ELSE [text |-> rest.text, missing |-> TRUE]
    ELSE LET rest == Substitute_DropsMissing(path, i + 1)
         IN [text |-> <<path[i]>> \o rest.text, missing |-> rest.missing]

\* path.replace( /\:[a-zA-Z_]+/g, ... ) from index i on: the text, and
\* whether a token had no route parameter
RECURSIVE Substitute(_, _)
Substitute(path, i) ==
    IF i > Len(path) THEN [text |-> <<>>, missing |-> FALSE]
    ELSE IF path[i] = ":" /\ i < Len(path) /\ path[i + 1] \in TokenChars
    THEN LET e == TokenEnd(path, i + 1)
             variableId == SubSeq(path, i + 1, e)
             rest == Substitute(path, e + 1)
         IN IF variableId \in DOMAIN routeParameters
            THEN [text |-> routeParameters[variableId] \o rest.text,
                  missing |-> rest.missing]
            ELSE [text |-> <<":">> \o variableId \o rest.text,
                  missing |-> TRUE]
    ELSE LET rest == Substitute(path, i + 1)
         IN [text |-> <<path[i]>> \o rest.text, missing |-> rest.missing]

\* evaluateHref building href from the baseHREF of before
evaluateHref_StaleBase(rt, n) ==
    LET action == definition[n].action
        node == getNode(action.location)
    IN IF node = NoNode
       THEN [route |-> rt, ok |-> FALSE, outcome |-> "unknown"]
       ELSE LET path == IF Falsy(action.path) THEN <<>> ELSE action.path
                sub == Substitute(path, 1)
            IN [route |-> [rt EXCEPT ![n].baseHREF = node.uri,
                                     ![n].href = ToStr(rt[n].baseHREF) \o sub.text],
                ok |-> ~sub.missing,
                outcome |-> IF sub.missing THEN "missing" ELSE "resolved"]

\* what evaluateHref makes of node n in the tree rt: the tree, the value
\* returned, and which way it went
evaluateHref(rt, n) ==
    LET action == definition[n].action
        node == getNode(action.location)
    IN IF node = NoNode
       THEN [route |-> rt, ok |-> FALSE, outcome |-> "unknown"]
       ELSE LET path == IF Falsy(action.path) THEN <<>> ELSE action.path
                sub == Substitute(path, 1)
            IN [route |-> [rt EXCEPT ![n].baseHREF = node.uri,
                                     ![n].href = ToStr(node.uri) \o sub.text],
                ok |-> ~sub.missing,
                outcome |-> IF sub.missing THEN "missing" ELSE "resolved"]

-----------------------------------------------------------------------------
(* AlRoute.evaluateActivation                                              *)

\* the pattern built for definition.matches[m]
MatchPattern(base, m) ==
    ReplaceFirst(<<"^">> \o ToStr(base) \o m \o <<"$">>, "/", <<"\\", "/">>)

\* a test that takes the comment's word: the current URL only has to
\* start with the href
OwnMatch_PrefixOnly(r, def) ==
    /\ ~Falsy(r.href)
    /\ StartsWith(currentUrl, ToStr(r.baseHREF))
    /\ LET q == IndexOf(r.href, "?")
           noParamsHref == IF q = 0 THEN r.href ELSE SubSeq(r.href, 1, q - 1)
       IN \/ StartsWith(currentUrl, noParamsHref)
          \/ (def.hasMatches
              /\ \E m \in 1..Len(def.matches) :
                    RegExpTest(MatchPattern(r.baseHREF, def.matches[m]), currentUrl))

\* whether evaluateActivation sets activated for a node with these fields
OwnMatch(r, def) ==
    /\ ~Falsy(r.href)
    /\ StartsWith(currentUrl, ToStr(r.baseHREF))
    /\ LET q == IndexOf(r.href, "?")
           noParamsHref == IF q = 0 THEN r.href ELSE SubSeq(r.href, 1, q - 1)
       IN \/ (StartsWith(noParamsHref, currentUrl)
              /\ StartsWith(currentUrl, noParamsHref))
          \/ (def.hasMatches
              /\ \E m \in 1..Len(def.matches) :
                    RegExpTest(MatchPattern(r.baseHREF, def.matches[m]), currentUrl))

evaluateActivation(rt, n) ==
    IF OwnMatch(rt[n], definition[n])
    THEN [rt EXCEPT ![n].activated = JsTrue]
    ELSE rt

-----------------------------------------------------------------------------
(* AlRoute.refresh                                                         *)

\* what a refresh did at every node: "skipped", "cached", "unknown",
\* "missing" or "resolved"
EmptyLog == [n \in Nodes |-> "skipped"]

\* the one element of a singleton set; { F(x) : x \in {e} } computes e once
Only(S) == CHOOSE x \in S : TRUE

RECURSIVE refresh(_, _, _, _)
RECURSIVE RefreshChildren(_, _, _, _, _, _)

\* this.children.reduce( ( activated, child ) => activated || child.refresh( resolve ), false )
\* from child i on; r is the state the earlier children left
RefreshChildren(rt, log, kids, i, activated, resolve) ==
    IF i > Len(kids) THEN [route |-> rt, log |-> log, ret |-> activated]
    ELSE IF activated = JsTrue
    THEN RefreshChildren(rt, log, kids, i + 1, activated, resolve)
    ELSE Only({ RefreshChildren(r.route, r.log, kids, i + 1, r.ret, resolve) :
                    r \in {refresh(rt, log, kids[i], resolve)} })

\* a refresh that resolves the href of every visible link, cached or not
Attempts_IgnoresCache(rt, n, resolve) ==
    /\ rt[n].visible
    /\ definition[n].hasAction
    /\ definition[n].action.type = "link"

\* whether refresh calls evaluateHref on node n, its children refreshed
Attempts(rt, n, resolve) ==
    /\ rt[n].visible
    /\ (resolve \/ rt[n].href = Null)
    /\ definition[n].hasAction
    /\ definition[n].action.type = "link"

\* the bubble step without the href
Bubble_ActivationOnly(rt, n) ==
    IF definition[n].bubble /\ Parent(n) /= NoParent
    THEN [rt EXCEPT ![Parent(n)].activated = JsOr(@, rt[n].activated)]
    ELSE rt

\* the bubble step of node n
Bubble(rt, n) ==
    IF definition[n].bubble /\ Parent(n) /= NoParent
    THEN [rt EXCEPT ![Parent(n)].activated = JsOr(@, rt[n].activated),
                    ![Parent(n)].href = rt[n].href]
    ELSE rt

\* refresh from "this.activated = childActivated" on
Activate(rt, log, n, childActivated) ==
    LET rt4 == [rt EXCEPT ![n].activated = childActivated]
        rt5 == IF rt4[n].activated /= JsTrue
               THEN evaluateActivation(rt4, n)
               ELSE rt4
    IN [route |-> Bubble(rt5, n), log |-> log, ret |-> rt5[n].activated]

\* refresh once the children are refreshed: kids is what the reduce gave
Resolve(kids, n, resolve) ==
    IF Attempts(kids.route, n, resolve)
    THEN Only({ IF ~hr.ok
                THEN [route |-> [hr.route EXCEPT ![n].visible = FALSE,
                                                 ![n].activated = JsFalse],
                      log |-> [kids.log EXCEPT ![n] = hr.outcome],
                      ret |-> JsUndefined]
                ELSE Activate(hr.route, [kids.log EXCEPT ![n] = "resolved"],
                              n, kids.ret) :
                    hr \in {evaluateHref(kids.route, n)} })
    ELSE Activate(kids.route, [kids.log EXCEPT ![n] = "cached"], n, kids.ret)

\* node n's refresh( resolve ) on the tree rt: the tree, the log and the
\* value returned
refresh(rt, log, n, resolve) ==
    LET def == definition[n]
        vis == IF def.hasVisible THEN evaluateCondition(def.visible) ELSE TRUE
    IN Only({ Resolve(kids, n, resolve) :
                 kids \in {RefreshChildren([rt EXCEPT ![n].visible = vis], log,
                                           Children(n), 1, JsFalse, resolve)} })

-----------------------------------------------------------------------------
(* Construction, and the operations                                        *)

\* the fields of a node before the constructor's refresh
NewRoute ==
    [visible |-> TRUE, activated |-> JsFalse, href |-> Null, baseHREF |-> Null]

\* the record of a refresh: the node it was called on, its argument, the
\* value returned, what it did at every node, and whether it repeats a
\* root refresh( true ) with nothing done in between
Op(op, n, resolve, ret, log, again) ==
    [op |-> op, node |-> n, resolve |-> resolve, ret |-> ret, log |-> log,
     again |-> again]

HostOp == [op |-> "host"]

NoCondition == Leaf(NoEntitlements)

\* new AlRoute( host, definition ) for the definition tree defs: every node
\* at its defaults, the overlay seeded from the definition, then the
\* root's refresh( true )
Construct(defs) ==
    /\ definition \in defs
    /\ tree = NewAlRoute([n \in Nodes |-> NewNode], definition, Root, NoParent)
    /\ properties = [n \in Nodes |->
                        IF definition[n].hasProperties
                        THEN definition[n].properties ELSE <<>>]
    /\ \E r \in {refresh([n \in Nodes |-> NewRoute], EmptyLog, Root, TRUE)} :
          /\ route = r.route
          /\ last = Op("construct", Root, TRUE, r.ret, r.log, FALSE)

Init ==
    /\ currentUrl \in Urls
    /\ routeParameters \in ParameterSets
    /\ entitlements \in EntitlementSets
    /\ locations = NodesBoth
    /\ context = DefaultContext
    /\ condition = NoCondition
    /\ Construct(Definitions)

\* whether the last operation was a refresh( true ) of the whole tree
RootResolved ==
    last.op \in {"construct", "refresh"} /\ last.node = Root /\ last.resolve

\* node.refresh( resolve ), called by the application
Refresh(n, resolve) ==
    /\ \E r \in {refresh(route, EmptyLog, n, resolve)} :
          /\ route' = r.route
          /\ last' = Op("refresh", n, resolve, r.ret, r.log,
                        RootResolved /\ n = Root /\ resolve)
    /\ UNCHANGED <<tree, definition, properties, currentUrl, routeParameters,
                   entitlements, locations, context, condition>>

\* the host navigates
SetCurrentUrl(url) ==
    /\ currentUrl' = url
    /\ last' = HostOp
    /\ UNCHANGED <<tree, definition, route, properties, routeParameters,
                   entitlements, locations, context, condition>>

SetRouteParameters(params) ==
    /\ routeParameters' = params
    /\ last' = HostOp
    /\ UNCHANGED <<tree, definition, route, properties, currentUrl,
                   entitlements, locations, context, condition>>

SetEntitlements(ents) ==
    /\ entitlements' = ents
    /\ last' = HostOp
    /\ UNCHANGED <<tree, definition, route, properties, currentUrl,
                   routeParameters, locations, context, condition>>

\* setLocations that adds the descriptors to the ones registered
setLocationsIn_Appends(locs, descriptors) == locs \o descriptors

\* the descriptors registered after setLocations( descriptors )
setLocationsIn(locs, descriptors) == descriptors

\* setActingUri that falls back to the default context
setActingUriIn_ResetsOnNoMatch(ctx, url) ==
    IF Recognized(url) THEN ContextOf(url) ELSE DefaultContext

\* the context after setActingUri( url ): the context of the first pattern
\* that matches, the context as it was when none does
setActingUriIn(ctx, url) ==
    IF Recognized(url) THEN ContextOf(url) ELSE ctx

\* registry.setLocations( descriptors )
setLocations(descriptors) ==
    /\ locations' = setLocationsIn(locations, descriptors)
    /\ last' = [op |-> "setLocations", descriptors |-> descriptors]
    /\ UNCHANGED <<tree, definition, route, properties, currentUrl,
                   routeParameters, entitlements, context, condition>>

\* registry.setActingUri( url )
setActingUri(url) ==
    /\ context' = setActingUriIn(context, url)
    /\ last' = [op |-> "setActingUri", url |-> url]
    /\ UNCHANGED <<tree, definition, route, properties, currentUrl,
                   routeParameters, entitlements, locations, condition>>

\* the menu of an application: the whole tree is refreshed after the host
\* or the registry's context changed
Next ==
    \/ \E resolve \in BOOLEAN : Refresh(Root, resolve)
    \/ \E url \in Urls : SetCurrentUrl(url)
    \/ \E params \in ParameterSets : SetRouteParameters(params)
    \/ \E ents \in EntitlementSets : SetEntitlements(ents)
    \/ \E url \in ActingUris : setActingUri(url)

Spec == Init /\ [][Next]_vars

\* the same menu when only the URL changes
NextUrl ==
    \/ \E resolve \in BOOLEAN : Refresh(Root, resolve)
    \/ \E url \in Urls : SetCurrentUrl(url)

SpecUrl == Init /\ [][NextUrl]_vars

-----------------------------------------------------------------------------
(* The menu of one application whose action.path is any short text: the    *)
(* paths evaluateHref is checked on.                                       *)

MaxPathLen == 4

PathChars == {":", "x", "y"}

RECURSIVE Texts(_)
Texts(len) ==
    IF len = 0 THEN {<<>>}
    ELSE LET shorter == Texts(len - 1)
         IN shorter \cup {Append(t, c) : t \in {u \in shorter : Len(u) = len - 1},
                                          c \in PathChars}

\* action.path: absent, or a slash and at most MaxPathLen characters
Paths == {Null} \cup {<<"/">> \o t : t \in Texts(MaxPathLen)}

\* route parameters for the tokens :x and :y; the value of y looks like a
\* token itself
PathParameterSets ==
    { <<>>,
      (<<"x">> :> <<"b">>),
      (<<"y">> :> <<":", "x">>),
      (<<"x">> :> <<"b">>) @@ (<<"y">> :> <<":", "x">>) }

\* the root over an item linking to path, which has a bubbling child, and
\* over a second item
PathDefinitions ==
    { [n \in Nodes |->
          CASE n = Root -> Plain("Test Menu")
            [] n = 2 -> WithLink(Plain("Path"), OverviewUI, path)
            [] n = 3 -> ItemIncidents
            [] OTHER -> ItemParam] : path \in Paths }

InitHref ==
    /\ currentUrl = uriOverviewUS \o pathB
    /\ routeParameters \in PathParameterSets
    /\ entitlements = ("a" :> TRUE)
    /\ locations = NodesBoth
    /\ context = DefaultContext
    /\ condition = NoCondition
    /\ Construct(PathDefinitions)

NextHref ==
    \/ \E resolve \in BOOLEAN : Refresh(Root, resolve)
    \/ \E params \in PathParameterSets : SetRouteParameters(params)
    \/ \E url \in ActingUris : setActingUri(url)

SpecHref == InitHref /\ [][NextHref]_vars

-----------------------------------------------------------------------------
(* evaluateCondition on its own: the condition is drawn at the start, the  *)
(* host's entitlements change, the condition is evaluated.                 *)

MaxConditions == 2

\* the rules a condition can carry: the three known ones, an unrecognized
\* one, the empty string
Rules == {"any", "all", "none", "some", ""}

\* the child conditions: leaves, two groups, and a list of conditions
\* under an empty rule
ChildConditions ==
    { Leaf("a"), Leaf("b"),
      Group("any", <<Leaf("a"), Leaf("b")>>),
      Group("all", <<>>),
      Group("", <<Leaf("b")>>) }

RECURSIVE ConditionLists(_)
ConditionLists(len) ==
    IF len = 0 THEN {<<>>}
    ELSE LET shorter == ConditionLists(len - 1)
         IN shorter \cup {Append(l, c) : l \in {m \in shorter : Len(m) = len - 1},
                                          c \in ChildConditions}

\* every condition: any rule or none, a list of at most MaxConditions
\* children or none, an entitlement or none
Conditions ==
    { [rule |-> r, hasConditions |-> TRUE, conditions |-> l, entitlements |-> e] :
        r \in Rules \cup {NoRule},
        l \in ConditionLists(MaxConditions),
        e \in {NoEntitlements, "a"} }
    \cup
    { [rule |-> r, hasConditions |-> FALSE, conditions |-> <<>>, entitlements |-> e] :
        r \in Rules \cup {NoRule},
        e \in {NoEntitlements, "a"} }

CondEntitlementSets == [{"a", "b"} -> BOOLEAN]

\* a menu of plain items
PlainDefinition == [n \in Nodes |-> Plain("Item")]

JsBool(b) == IF b THEN JsTrue ELSE JsFalse

\* route.evaluateCondition( condition )
EvaluateCondition ==
    /\ last' = [op |-> "evaluateCondition",
                ret |-> JsBool(evaluateCondition(condition)),
                calls |-> hostCalls(condition)]
    /\ UNCHANGED <<tree, definition, route, properties, currentUrl, routeParameters,
                   entitlements, locations, context, condition>>

InitCond ==
    /\ currentUrl = <<>>
    /\ routeParameters = <<>>
    /\ entitlements \in CondEntitlementSets
    /\ locations = NodesBoth
    /\ context = DefaultContext
    /\ condition \in Conditions
    /\ Construct({PlainDefinition})

NextCond ==
    \/ EvaluateCondition
    \/ \E ents \in CondEntitlementSets : SetEntitlements(ents)

SpecCond == InitCond /\ [][NextCond]_vars

-----------------------------------------------------------------------------
(* The property overlay: setProperty, deleteProperty, getProperty          *)

PropNames == {"kevin", "hair"}

\* the values set: a string, null, false
PropValues == {"was-here", "null", "false"}

\* definition.properties: undefined, empty, or with defaults
NoProperties == [hasProperties |-> FALSE, properties |-> <<>>]
Properties(map) == [hasProperties |-> TRUE, properties |-> map]

PropertySets ==
    { NoProperties,
      Properties(<<>>),
      Properties("kevin" :> "default"),
      Properties(("kevin" :> "default") @@ ("hair" :> "null")) }

\* the nodes the application sets properties on
PropertyNodes == {Root, 4}

PropDefinitions ==
    { [n \in Nodes |->
          [Plain("Item") EXCEPT !.hasProperties = f[n].hasProperties,
                                !.properties = f[n].properties]] :
        f \in { g \in [Nodes -> PropertySets] :
                    \A n \in Nodes \ PropertyNodes : g[n] = NoProperties } }

\* the overlay without the entry name
Without(map, name) == [k \in (DOMAIN map) \ {name} |-> map[k]]

\* the overlay with the entry name set to value
With(map, name, value) ==
    [k \in (DOMAIN map) \cup {name} |-> IF k = name THEN value ELSE map[k]]

\* deleteProperty that never restores the definition's value
deletePropertyIn_AlwaysDeletes(map, def, propName) == Without(map, propName)

\* the overlay of a node with this definition after deleteProperty( propName )
deletePropertyIn(map, def, propName) ==
    IF def.hasProperties /\ propName \in DOMAIN def.properties
    THEN With(map, propName, def.properties[propName])
    ELSE Without(map, propName)

\* setProperty that removes the entry when the value is missing
setPropertyIn_UnsetRemoves(map, def, propName, value) ==
    IF value = JsUndefined
    THEN Without(map, propName)
    ELSE With(map, propName, value)

\* setProperty that takes every falsy value for the missing one
setPropertyIn_FalsyUnsets(map, def, propName, value) ==
    IF value \in {JsUndefined, "null", "false"}
    THEN deletePropertyIn(map, def, propName)
    ELSE With(map, propName, value)

\* the overlay after setProperty( propName, value )
setPropertyIn(map, def, propName, value) ==
    IF value = JsUndefined
    THEN deletePropertyIn(map, def, propName)
    ELSE With(map, propName, value)

\* getProperty( propName, defaultValue )
getPropertyIn(map, propName, defaultValue) ==
    IF propName \in DOMAIN map THEN map[propName] ELSE defaultValue

getProperty(n, propName, defaultValue) ==
    getPropertyIn(properties[n], propName, defaultValue)

PropOp(op, n, name, value, ret) ==
    [op |-> op, node |-> n, name |-> name, value |-> value, ret |-> ret]

\* the definitions after a write to this.properties of node n: the write
\* reaches definition.properties when the two are one object
WrittenThrough(n, map) ==
    IF tree[n].overlay = DefinitionObject
    THEN [definition EXCEPT ![n].properties = map]
    ELSE definition

setProperty(n, propName, value) ==
    /\ properties' = [properties EXCEPT
                        ![n] = setPropertyIn(@, definition[n], propName, value)]
    /\ definition' = WrittenThrough(n, properties'[n])
    /\ last' = PropOp("setProperty", n, propName, value, JsUndefined)
    /\ UNCHANGED <<tree, route, currentUrl, routeParameters,
                   entitlements, locations, context, condition>>

deleteProperty(n, propName) ==
    /\ properties' = [properties EXCEPT
                        ![n] = deletePropertyIn(@, definition[n], propName)]
    /\ definition' = WrittenThrough(n, properties'[n])
    /\ last' = PropOp("deleteProperty", n, propName, JsUndefined, JsUndefined)
    /\ UNCHANGED <<tree, route, currentUrl, routeParameters,
                   entitlements, locations, context, condition>>

\* the defaults handed to getProperty; null is the one used when omitted
PropDefaults == {"null", "false"}

GetProperty(n, propName, defaultValue) ==
    /\ last' = PropOp("getProperty", n, propName, defaultValue,
                      getProperty(n, propName, defaultValue))
    /\ UNCHANGED <<tree, definition, route, properties, currentUrl, routeParameters,
                   entitlements, locations, context, condition>>

InitProps ==
    /\ currentUrl = <<>>
    /\ routeParameters = <<>>
    /\ entitlements = ("a" :> FALSE)
    /\ locations = NodesBoth
    /\ context = DefaultContext
    /\ condition = NoCondition
    /\ Construct(PropDefinitions)

NextProps ==
    \/ \E n \in PropertyNodes, name \in PropNames, value \in PropValues \cup {JsUndefined} :
          setProperty(n, name, value)
    \/ \E n \in PropertyNodes, name \in PropNames : deleteProperty(n, name)
    \/ \E n \in PropertyNodes, name \in PropNames, dflt \in PropDefaults :
          GetProperty(n, name, dflt)

SpecProps == InitProps /\ [][NextProps]_vars

-----------------------------------------------------------------------------
(* What the claims are stated with                                         *)

RECURSIVE Ancestors(_)
Ancestors(n) ==
    IF Parent(n) = NoParent THEN {} ELSE {Parent(n)} \cup Ancestors(Parent(n))

Descendants(n) == {m \in Nodes : n \in Ancestors(m)}

\* the state is the one a refresh of the whole tree (the constructor's
\* included) left
RootRefreshed == last.op \in {"construct", "refresh"} /\ last.node = Root

\* definition.visible of node n evaluates to false under the host's state
ConditionFalse(n) ==
    definition[n].hasVisible /\ ~evaluateCondition(definition[n].visible)

IsLink(n) == definition[n].hasAction /\ definition[n].action.type = "link"

-----------------------------------------------------------------------------
\* C1: a link node on which refresh attempted resolution and getNode
\* returned null ends the refresh with visible=false, activated=false,
\* href=null and baseHREF=null, whatever refreshes came before.
C1_UnknownLocationClearsNode ==
    RootRefreshed =>
        \A n \in Nodes :
            last.log[n] = "unknown" =>
                /\ route[n].visible = FALSE
                /\ route[n].activated = JsFalse
                /\ route[n].href = Null
                /\ route[n].baseHREF = Null

\* C2: after a root refresh, a node whose href equals host.currentUrl is
\* activated, and so is every one of its ancestors.
C2_MatchActivatesAncestors ==
    RootRefreshed =>
        \A n \in Nodes :
            route[n].href = currentUrl =>
                \A m \in {n} \cup Ancestors(n) : route[m].activated = JsTrue

\* C3: after URL changes each followed by a root refresh, a node with no
\* activated descendant whose own-match test fails is not activated.
C3_NoMatchNotActivated ==
    RootRefreshed =>
        \A n \in Nodes :
            ( /\ \A m \in Descendants(n) : route[m].activated /= JsTrue
              /\ ~OwnMatch(route[n], definition[n]) )
            => route[n].activated /= JsTrue

\* C4: after the root constructor and after every root refresh, a node
\* whose visibility condition is false has visible=false.
C4_ConditionFalseHidden ==
    RootRefreshed =>
        \A n \in Nodes : ConditionFalse(n) => route[n].visible = FALSE

\* C5: a refreshed node whose visibility condition is false
\* has visible=false and href=null.
C5_HiddenHasNoHref ==
    last.op \in {"construct", "refresh"} =>
        \A n \in Nodes :
            (last.log[n] /= "skipped" /\ ConditionFalse(n)) =>
                (route[n].visible = FALSE /\ route[n].href = Null)

\* the positions of the bubbling children of n that a refresh with this
\* log ran to the bubble step
Bubbled(n, log) ==
    { i \in 1..Len(Children(n)) :
        /\ definition[Children(n)[i]].bubble
        /\ log[Children(n)[i]] \in {"cached", "resolved"} }

\* C6: refresh(true) on the root is idempotent under fixed host state: a
\* second consecutive call leaves every node's visible, activated and href
\* as the first call left them.
C6_RefreshIdempotent ==
    [][ (RootResolved /\ last'.op = "refresh" /\ last'.node = Root /\ last'.resolve)
            => \A n \in Nodes :
                  /\ route'[n].visible = route[n].visible
                  /\ route'[n].activated = route[n].activated
                  /\ route'[n].href = route[n].href
      ]_vars

\* a second consecutive refresh(true) of a tree in which a node was skipped
\* and another failed to resolve
C6_Witness ==
    /\ last.op = "refresh"
    /\ last.again
    /\ \E n, m \in Nodes : last.log[n] = "skipped" /\ last.log[m] \in {"unknown", "missing"}

-----------------------------------------------------------------------------
(* The path a resolved href ends with, stated position by position.        *)

\* where the ':name' tokens of path start
TokenStarts(path) ==
    {i \in 1..(Len(path) - 1) : path[i] = ":" /\ path[i + 1] \in TokenChars}

\* the name of the token that starts at i: the letters that follow the colon
TokenName(path, i) ==
    LET end == CHOOSE j \in (i + 1)..Len(path) :
                   /\ \A k \in (i + 1)..j : path[k] \in TokenChars
                   /\ (j = Len(path) \/ path[j + 1] \notin TokenChars)
    IN SubSeq(path, i + 1, end)

\* what position k of path contributes once the tokens are replaced
Piece(path, k) ==
    IF k \in TokenStarts(path)
    THEN IF TokenName(path, k) \in DOMAIN routeParameters
         THEN routeParameters[TokenName(path, k)]
         ELSE <<":">> \o TokenName(path, k)
    ELSE IF \E i \in TokenStarts(path) : i < k /\ k <= i + Len(TokenName(path, i))
    THEN <<>>
    ELSE <<path[k]>>

RECURSIVE Pieces(_, _)
Pieces(path, k) ==
    IF k > Len(path) THEN <<>> ELSE Piece(path, k) \o Pieces(path, k + 1)

\* action.path of node n, '' when it has none
PathOf(n) ==
    IF definition[n].action.path = Null THEN <<>> ELSE definition[n].action.path

ExpectedPath(n) == Pieces(PathOf(n), 1)

\* some token of node n's path has no route parameter
TokenMissing(n) ==
    \E i \in TokenStarts(PathOf(n)) :
        TokenName(PathOf(n), i) \notin DOMAIN routeParameters

\* the refresh called evaluateHref on node n
Attempted(n) == last.log[n] \in {"unknown", "missing", "resolved"}

LocationOf(n) == getNode(definition[n].action.location)

\* C7: when a link node's location resolves but a token of its path has no
\* route parameter, refresh leaves baseHREF = the resolved uri, href =
\* baseHREF + path with that token kept and the others substituted, and
\* visible=false.
C7_MissingTokenKept ==
    last.op \in {"construct", "refresh"} =>
        \A n \in Nodes :
            ( /\ Attempted(n)
              /\ IsLink(n)
              /\ LocationOf(n) /= NoNode
              /\ TokenMissing(n) )
            => /\ route[n].baseHREF = LocationOf(n).uri
               /\ route[n].href = LocationOf(n).uri \o ExpectedPath(n)
               /\ route[n].visible = FALSE

\* a path of two tokens was resolved with one route parameter present and
\* the other missing
C7_Witness ==
    /\ last.op = "refresh"
    /\ \E n \in Nodes :
          /\ last.log[n] = "missing"
          /\ Cardinality(TokenStarts(PathOf(n))) = 2
          /\ \E i \in TokenStarts(PathOf(n)) :
                TokenName(PathOf(n), i) \in DOMAIN routeParameters
          /\ route[n].href /= LocationOf(n).uri \o PathOf(n)

\* C8: refresh(true) on a link node whose visibility condition holds, whose
\* location resolves to d and whose tokens all have route parameters yields
\* baseHREF = d.uri, href = d.uri + path with every token replaced, and
\* visible=true.
C8_ResolvedHref ==
    (last.op \in {"construct", "refresh"} /\ last.resolve) =>
        \A n \in Nodes :
            ( /\ last.log[n] /= "skipped"
              /\ IsLink(n)
              /\ ~ConditionFalse(n)
              /\ LocationOf(n) /= NoNode
              /\ ~TokenMissing(n) )
            => /\ route[n].baseHREF = LocationOf(n).uri
               /\ route[n].href = LocationOf(n).uri \o ExpectedPath(n)
               /\ route[n].visible = TRUE

\* a path of two tokens was resolved, both replaced, on a node into which a
\* child had bubbled its own href
C8_Witness ==
    /\ last.op = "refresh"
    /\ last.resolve
    /\ \E n \in Nodes :
          /\ last.log[n] = "resolved"
          /\ Cardinality(TokenStarts(PathOf(n))) = 2
          /\ Bubbled(n, last.log) /= {}
          /\ route[n].visible

-----------------------------------------------------------------------------
\* what the rule of a group asks of its children, stated on the children
ExpectedOfRule(cond) ==
    LET holds(i) == evaluateCondition(cond.conditions[i])
        some == \E i \in 1..Len(cond.conditions) : holds(i)
    IN IF cond.rule = "any" THEN some
       ELSE IF cond.rule = "all" THEN \A i \in 1..Len(cond.conditions) : holds(i)
       ELSE ~some

\* C9 as claimed: a condition with a rule string and a list of children
\* evaluates to what the rule asks: 'any' one child true, 'all' every child
\* true, any other rule string no child true.
C9_RuleDecides ==
    ( /\ last.op = "evaluateCondition"
      /\ condition.rule /= NoRule
      /\ condition.hasConditions )
    => last.ret = JsBool(ExpectedOfRule(condition))

\* C9, amended: the same for every rule string but the empty one; a
\* condition whose rule is the empty string is handed to host.evaluate.
C9_NonEmptyRuleDecides ==
    ( /\ last.op = "evaluateCondition"
      /\ condition.rule /= NoRule
      /\ condition.hasConditions )
    => last.ret = IF condition.rule = ""
                  THEN JsBool(hostEvaluate(condition))
                  ELSE JsBool(ExpectedOfRule(condition))

\* an unrecognized rule over two children, none of them true, was evaluated
C9_Witness ==
    /\ last.op = "evaluateCondition"
    /\ condition.rule = "some"
    /\ condition.hasConditions
    /\ Len(condition.conditions) = 2
    /\ last.ret = JsTrue

\* C10: after setProperty(name, undefined), getProperty(name, dflt) returns
\* definition.properties[name] if the definition has it, dflt otherwise.
C10_UnsetRestoresDefinition ==
    (last.op = "setProperty" /\ last.value = JsUndefined) =>
        \A dflt \in PropDefaults :
            getProperty(last.node, last.name, dflt) =
                IF /\ definition[last.node].hasProperties
                   /\ last.name \in DOMAIN definition[last.node].properties
                THEN definition[last.node].properties[last.name]
                ELSE dflt

\* a property the definition has was unset on a node whose overlay holds a
\* value the definition does not give
C10_Witness ==
    /\ last.op = "setProperty"
    /\ last.value = JsUndefined
    /\ definition[last.node].hasProperties
    /\ last.name \in DOMAIN definition[last.node].properties
    /\ \E other \in DOMAIN properties[last.node] :
          other \notin DOMAIN definition[last.node].properties

-----------------------------------------------------------------------------
\* C11: setProperty(name, v) with v other than undefined makes
\* getProperty(name, dflt) return v whatever dflt is; getProperty of a name
\* the overlay does not hold returns dflt; and setProperty on one name
\* leaves what getProperty reads for every other name, on every node.
C11_SetThenGet ==
    [][ /\ (last'.op = "setProperty" /\ last'.value /= JsUndefined) =>
              \A dflt \in PropDefaults :
                  getPropertyIn(properties'[last'.node], last'.name, dflt) = last'.value
        /\ (last'.op = "getProperty" /\ last'.name \notin DOMAIN properties[last'.node]) =>
              last'.ret = last'.value
        /\ last'.op = "setProperty" =>
              \A n \in Nodes, other \in PropNames, dflt \in PropDefaults :
                  (n /= last'.node \/ other /= last'.name) =>
                      getPropertyIn(properties'[n], other, dflt) =
                          getPropertyIn(properties[n], other, dflt)
      ]_vars

\* null was set on a name the definition gives another value, on a node
\* whose overlay holds a second name
C11_Witness ==
    /\ last.op = "setProperty"
    /\ last.value = "null"
    /\ definition[last.node].hasProperties
    /\ last.name \in DOMAIN definition[last.node].properties
    /\ definition[last.node].properties[last.name] /= "null"
    /\ \E other \in DOMAIN properties[last.node] : other /= last.name

-----------------------------------------------------------------------------
\* C12: a refresh returns a boolean that equals the node's activated field
\* after the call and is true exactly when the node or one of its
\* descendants is activated; every node's activated field is true or false.
C12_ReturnsActivatedBoolean ==
    /\ \A n \in Nodes : route[n].activated \in {JsTrue, JsFalse}
    /\ last.op \in {"construct", "refresh"} =>
          /\ last.ret \in {JsTrue, JsFalse}
          /\ last.ret = route[last.node].activated
          /\ (last.ret = JsTrue) <=>
                \E n \in {last.node} \cup Descendants(last.node) :
                    route[n].activated = JsTrue

-----------------------------------------------------------------------------
(* The location registry on its own: setLocations, setActingUri, getNode,  *)
(* getNodeByURI, search, findOne, escapeLocationPattern.  Modelled from    *)
(* the specification (4.1) and from test/al-locator.spec.ts.               *)

MaxTemplateLen == 3

\* the characters of the URI templates
TemplateChars == {"o", ".", "-", "*", "/"}

RECURSIVE TemplateTexts(_)
TemplateTexts(len) ==
    IF len = 0 THEN {<<>>}
    ELSE LET shorter == TemplateTexts(len - 1)
         IN shorter \cup {t \o <<c>> : t \in {u \in shorter : Len(u) = len - 1},
                                      c \in TemplateChars}

\* the characters a regular expression gives a meaning to, '*' apart
MetaChars == {"/", ".", "-", "\\", "^", "$", "(", ")", "|", "[", "]", "{", "}", "+", "?"}

\* [a-zA-Z0-9_]+
WordClass == <<"[", "a", "-", "z", "A", "-", "Z", "0", "-", "9", "_", "]", "+">>

\* the characters of the model's URLs that [a-zA-Z0-9_] accepts
WordChars == {"o", "i", "c", "k", "d", "l", "x", "r", "4", "7", "8", "_"}

\* what one character of a template becomes in the pattern
EscapeChar(c) ==
    IF c = "*" THEN WordClass
    ELSE IF c \in MetaChars THEN <<"\\", c>>
    ELSE <<c>>

\* escapeLocationPattern that leaves the literal text as it is
escapeLocationPattern_NoEscape(t) ==
    LET F[i \in 0..Len(t)] ==
            IF i = 0 THEN <<>>
            ELSE F[i - 1] \o (IF t[i] = "*" THEN WordClass ELSE <<t[i]>>)
    IN <<"^">> \o F[Len(t)] \o <<".", "*", "$">>

\* escapeLocationPattern( template )
escapeLocationPattern(t) ==
    LET F[i \in 0..Len(t)] ==
            IF i = 0 THEN <<>> ELSE F[i - 1] \o EscapeChar(t[i])
    IN <<"^">> \o F[Len(t)] \o <<".", "*", "$">>

\* whether the text of pattern p from position i on matches the rest of s
\* from position j on: an escaped character, the word class, '.*', '.',
\* a literal character
RECURSIVE LocMatch(_, _, _, _)
LocMatch(p, i, s, j) ==
    IF i > Len(p) THEN j > Len(s)
    ELSE IF p[i] = "\\" /\ i < Len(p)
    THEN j <= Len(s) /\ s[j] = p[i + 1] /\ LocMatch(p, i + 2, s, j + 1)
    ELSE IF i + Len(WordClass) - 1 <= Len(p)
            /\ SubSeq(p, i, i + Len(WordClass) - 1) = WordClass
    THEN /\ j <= Len(s)
         /\ s[j] \in WordChars
         /\ (LocMatch(p, i + Len(WordClass), s, j + 1) \/ LocMatch(p, i, s, j + 1))
    ELSE IF p[i] = "." /\ i < Len(p) /\ p[i + 1] = "*"
    THEN LocMatch(p, i + 2, s, j) \/ (j <= Len(s) /\ LocMatch(p, i, s, j + 1))
    ELSE /\ j <= Len(s)
         /\ (p[i] = "." \/ p[i] = s[j])
         /\ LocMatch(p, i + 1, s, j + 1)

\* new RegExp( d.matchPattern ).test( url )
PatternMatches(pattern, url) ==
    /\ Len(pattern) >= 2
    /\ pattern[1] = "^"
    /\ pattern[Len(pattern)] = "$"
    /\ LocMatch(SubSeq(pattern, 2, Len(pattern) - 1), 1, url, 1)

\* a descriptor with the pattern of its URI template
Location(id, env, res, uri, template) ==
    [matchPattern |-> escapeLocationPattern(template)] @@ Descriptor(id, env, res, uri)

\* the descriptors of one application in the four deployments
UiNode(id, a, port) ==
    << Location(id, "production", "US", <<a, ".", "c">>, <<a, ".", "c">>),
       Location(id, "production", "EMEA", <<a, ".", "k">>, <<a, ".", "k">>),
       Location(id, "integration", Unset, <<a, ".", "d">>, <<a, "-", "*", ".", "d">>),
       Location(id, "development", Unset, <<"l", ":", port>>, <<"l", ":", port>>) >>

RegistryNodes == UiNode(OverviewUI, "o", "4") \o UiNode(IncidentsUI, "i", "8")

\* two applications served from one host, the second under a path
SharedHostNodes ==
    << Location(OverviewUI, "production", "US", <<"o", ".", "c">>, <<"o", ".", "c">>),
       Location(IncidentsUI, "production", "US",
                <<"o", ".", "c", "/", "i">>, <<"o", ".", "c", "/", "i">>) >>

RegistryLocationSets ==
    { RegistryNodes,
      UiNode(OverviewUI, "o", "4"),
      UiNode(IncidentsUI, "i", "8"),
      SharedHostNodes }

RegistryActingUris ==
    ActingUris \cup
    { "https://console.overview.alertlogic.co.uk/#/remediations-scan-status/2",
      "http://localhost:4213/#/remediations-scan-status/2",
      "https://somewhere.over-the.rainbow.org/#/my-page" }

LocTypeIds == {OverviewUI, IncidentsUI, InvalidLocation}

\* the URLs handed to getNodeByURI
RegistryUrls ==
    { <<"o", ".", "c", "/", "x">>,
      <<"o", ".", "k">>,
      <<"o", "-", "7", ".", "d", "/", "x">>,
      <<"o", "-", ".", "d">>,
      <<"o", "x", "c">>,
      <<"o", ".", "c", "/", "i", "/", "x">>,
      <<"l", ":", "8", "/", "x">>,
      <<"i", ".", "c">>,
      <<"r", ".", "o">> }

\* the elements of a sequence
Range(seq) == {seq[i] : i \in DOMAIN seq}

\* getNodeByURI that compares the URL with the descriptors' uri
getNodeByURIIn_MatchesUri(locs, url) ==
    LET hits == SelectSeq(locs, LAMBDA d : StartsWith(url, d.uri))
    IN IF Len(hits) = 0 THEN NoNode ELSE hits[1]

\* registry.getNodeByURI( url ): the first registered descriptor whose
\* pattern matches
getNodeByURIIn(locs, url) ==
    LET hits == SelectSeq(locs, LAMBDA d : PatternMatches(d.matchPattern, url))
    IN IF Len(hits) = 0 THEN NoNode ELSE hits[1]

\* the predicates handed to search and findOne
Predicates == {"any", "overview", "overviewEMEA", "unset", "none"}

Satisfies(p, d) ==
    CASE p = "any" -> TRUE
      [] p = "overview" -> d.locTypeId = OverviewUI
      [] p = "overviewEMEA" -> d.locTypeId = OverviewUI /\ d.residency = "EMEA"
      [] p = "unset" -> d.residency = Unset
      [] OTHER -> FALSE

\* search that stops at the first match
searchIn_FirstOnly(locs, p) ==
    LET hits == SelectSeq(locs, LAMBDA d : Satisfies(p, d))
    IN IF Len(hits) = 0 THEN hits ELSE <<hits[1]>>

\* registry.search( predicate )
searchIn(locs, p) == SelectSeq(locs, LAMBDA d : Satisfies(p, d))

\* registry.findOne( predicate )
findOneIn(locs, p) ==
    LET hits == searchIn(locs, p)
    IN IF Len(hits) = 0 THEN NoNode ELSE hits[1]

Registry == <<tree, definition, route, properties, currentUrl, routeParameters,
              entitlements, locations, context, condition>>

GetNode(id) ==
    /\ last' = [op |-> "getNode", id |-> id, node |-> getNode(id)]
    /\ UNCHANGED Registry

GetNodeByURI(url) ==
    /\ last' = [op |-> "getNodeByURI", uri |-> url,
                node |-> getNodeByURIIn(locations, url)]
    /\ UNCHANGED Registry

Search(p) ==
    /\ last' = [op |-> "search", predicate |-> p, nodes |-> searchIn(locations, p)]
    /\ UNCHANGED Registry

FindOne(p) ==
    /\ last' = [op |-> "findOne", predicate |-> p, node |-> findOneIn(locations, p)]
    /\ UNCHANGED Registry

EscapeLocationPattern(t) ==
    /\ last' = [op |-> "escapeLocationPattern", template |-> t,
                pattern |-> escapeLocationPattern(t)]
    /\ UNCHANGED Registry

\* new AlLocatorMatrix(): no descriptor, the default context
InitRegistry ==
    /\ currentUrl = <<>>
    /\ routeParameters = <<>>
    /\ entitlements = ("a" :> FALSE)
    /\ locations = <<>>
    /\ context = DefaultContext
    /\ condition = NoCondition
    /\ Construct({PlainDefinition})

NextRegistry ==
    \/ \E descriptors \in RegistryLocationSets : setLocations(descriptors)
    \/ \E url \in RegistryActingUris : setActingUri(url)
    \/ \E id \in LocTypeIds : GetNode(id)
    \/ \E url \in RegistryUrls : GetNodeByURI(url)
    \/ \E p \in Predicates : Search(p)
    \/ \E p \in Predicates : FindOne(p)

SpecRegistry == InitRegistry /\ [][NextRegistry]_vars

\* a registry that holds the descriptors of the two applications, asked
\* for patterns while its context moves between two residencies
InitEscape ==
    /\ currentUrl = <<>>
    /\ routeParameters = <<>>
    /\ entitlements = ("a" :> FALSE)
    /\ locations = RegistryNodes
    /\ context = DefaultContext
    /\ condition = NoCondition
    /\ Construct({PlainDefinition})

NextEscape ==
    \/ \E t \in TemplateTexts(MaxTemplateLen) : EscapeLocationPattern(t)
    \/ \E url \in { "https://console.overview.alertlogic.com/#/remediations-scan-status/2",
                    "https://console.overview.alertlogic.co.uk/#/remediations-scan-status/2" } :
          setActingUri(url)

SpecEscape == InitEscape /\ [][NextEscape]_vars

-----------------------------------------------------------------------------
\* C13: a new registry has the context production/US, and a setActingUri
\* call whose URL no built-in pattern matches (the useDefault placeholder
\* included) leaves the context's environment and residency as they were.
C13_UnmatchedUriKeepsContext ==
    /\ context = [environment |-> "production", residency |-> "US"]
    /\ [][ (last'.op = "setActingUri" /\ ~Recognized(last'.url)) =>
              /\ context'.environment = context.environment
              /\ context'.residency = context.residency
         ]_vars

\* an unmatched URL was set while the context was not the default one
C13_Witness ==
    /\ last.op = "setActingUri"
    /\ last.url \in {"useDefault", "https://somewhere.over-the.rainbow.org/#/my-page"}
    /\ context /= DefaultContext

-----------------------------------------------------------------------------
\* the registered descriptors getNode( id ) may return in the current
\* context: the type asked for, the context's environment, and a residency
\* that is unset or the context's
ContextNodes(id) ==
    { d \in Range(locations) :
        /\ d.locTypeId = id
        /\ d.environment = context.environment
        /\ d.residency \in {Unset, context.residency} }

\* C14: getNode( id ) returns a registered descriptor of type id, of the
\* context's environment and of an unset residency or the context's; it
\* returns null exactly when no registered descriptor is one, never a
\* descriptor of another environment or residency.
C14_GetNodeMatchesContext ==
    last.op = "getNode" =>
        IF ContextNodes(last.id) = {}
        THEN last.node = NoNode
        ELSE last.node \in ContextNodes(last.id)

\* getNode returned null for a type registered in another context only
C14_Witness ==
    /\ last.op = "getNode"
    /\ last.node = NoNode
    /\ \E d \in Range(locations) : d.locTypeId = last.id

-----------------------------------------------------------------------------
\* the registered descriptors whose matchPattern matches url
PatternNodes(locs, url) ==
    { d \in Range(locs) : PatternMatches(d.matchPattern, url) }

\* C15 as claimed: for every registered descriptor D whose matchPattern
\* matches U, getNodeByURI( U ) returns a descriptor with D's locTypeId,
\* environment and residency, in every context; it returns null when no
\* registered pattern matches U, and it leaves the context as it was.
C15_ByUriReturnsEveryMatch ==
    [][ last'.op = "getNodeByURI" =>
          /\ \A D \in PatternNodes(locations', last'.uri) :
                /\ last'.node.locTypeId = D.locTypeId
                /\ last'.node.environment = D.environment
                /\ last'.node.residency = D.residency
          /\ (PatternNodes(locations', last'.uri) = {} => last'.node = NoNode)
          /\ context' = context
      ]_vars

\* C15, amended: getNodeByURI( U ) returns a registered descriptor whose
\* matchPattern matches U, which is D when D is the only one; it returns
\* null when no registered pattern matches U, and it leaves the context as
\* it was.
C15_ByUriReturnsAMatch ==
    [][ last'.op = "getNodeByURI" =>
          /\ IF PatternNodes(locations', last'.uri) = {}
             THEN last'.node = NoNode
             ELSE last'.node \in PatternNodes(locations', last'.uri)
          /\ context' = context
      ]_vars

\* a URL that the wildcard pattern of an integration descriptor matches was
\* looked up in another context than the default one
C15_Witness ==
    /\ last.op = "getNodeByURI"
    /\ last.uri = <<"o", "-", "7", ".", "d", "/", "x">>
    /\ last.node /= NoNode
    /\ last.node.environment = "integration"
    /\ context.environment = "production"
    /\ context.residency = "EMEA"

-----------------------------------------------------------------------------
\* C16: setLocations( S ) replaces the descriptors: after it a search with
\* an always-true predicate returns exactly S, getNode and getNodeByURI
\* return a descriptor of S or null, and the context is as it was.
C16_SetLocationsReplaces ==
    [][ last'.op = "setLocations" =>
          /\ searchIn(locations', "any") = last'.descriptors
          /\ \A id \in LocTypeIds :
                getNodeIn(locations', context', id)
                    \in Range(last'.descriptors) \cup {NoNode}
          /\ \A url \in RegistryUrls :
                getNodeByURIIn(locations', url)
                    \in Range(last'.descriptors) \cup {NoNode}
          /\ context' = context
      ]_vars

\* the descriptors of the incidents application alone were registered
\* after the context had left its default
C16_Witness ==
    /\ last.op = "setLocations"
    /\ last.descriptors = UiNode(IncidentsUI, "i", "8")
    /\ context /= DefaultContext

-----------------------------------------------------------------------------
\* the positions of the registered descriptors that satisfy p
Satisfying(locs, p) == {i \in DOMAIN locs : Satisfies(p, locs[i])}

\* the k-th of them in registration order
NthSatisfying(locs, p, k) ==
    CHOOSE i \in Satisfying(locs, p) :
        Cardinality({j \in Satisfying(locs, p) : j < i}) = k - 1

\* C17: search( p ) returns the registered descriptors that satisfy p, each
\* once and in registration order; findOne( p ) returns the first of them,
\* null when there is none; neither changes the descriptors or the context.
C17_SearchInRegistrationOrder ==
    [][ /\ last'.op = "search" =>
              /\ Len(last'.nodes) = Cardinality(Satisfying(locations, last'.predicate))
              /\ \A k \in 1..Len(last'.nodes) :
                    last'.nodes[k] =
                        locations[NthSatisfying(locations, last'.predicate, k)]
              /\ \A k, l \in 1..Len(last'.nodes) :
                    k /= l => last'.nodes[k] /= last'.nodes[l]
        /\ last'.op = "findOne" =>
              last'.node =
                  IF Satisfying(locations, last'.predicate) = {} THEN NoNode
                  ELSE locations[NthSatisfying(locations, last'.predicate, 1)]
        /\ last'.op \in {"search", "findOne"} =>
              (locations' = locations /\ context' = context)
      ]_vars

\* a search returned four descriptors that are not next to one another in
\* the registry
C17_Witness ==
    /\ last.op = "search"
    /\ last.predicate = "unset"
    /\ Len(last.nodes) = 4
    /\ Len(locations) = 8

-----------------------------------------------------------------------------
\* how many characters of a pattern one character of a template takes
PieceLen(c) ==
    IF c = "*" THEN 13 ELSE IF c \in MetaChars THEN 2 ELSE 1

\* where in the pattern the piece of the template's i-th character starts
RECURSIVE PieceStart(_, _)
PieceStart(t, i) ==
    IF i = 1 THEN 2 ELSE PieceStart(t, i - 1) + PieceLen(t[i - 1])

\* C18: the pattern of a template t is '^', then for every character of t
\* in turn the character itself, or a backslash and the character when it
\* is a metacharacter, or [a-zA-Z0-9_]+ when it is '*', then '.*$'; the
\* call changes nothing in the registry.
C18_EscapedPattern ==
    [][ last'.op = "escapeLocationPattern" =>
          LET t == last'.template
              r == last'.pattern
              end == PieceStart(t, Len(t) + 1)
          IN /\ Len(r) = end + 2
             /\ r[1] = "^"
             /\ SubSeq(r, end, end + 2) = <<".", "*", "$">>
             /\ \A i \in 1..Len(t) :
                   LET at == PieceStart(t, i)
                   IN IF t[i] = "*"
                      THEN SubSeq(r, at, at + 12) =
                              <<"[", "a", "-", "z", "A", "-", "Z", "0", "-", "9", "_", "]", "+">>
                      ELSE IF t[i] \in MetaChars
                      THEN r[at] = "\\" /\ r[at + 1] = t[i]
                      ELSE r[at] = t[i]
             /\ locations' = locations
             /\ context' = context
      ]_vars

\* a template with a wildcard between two metacharacters was escaped in a
\* registry that holds descriptors and has left the default context
C18_Witness ==
    /\ last.op = "escapeLocationPattern"
    /\ last.template = <<"-", "*", ".">>
    /\ Len(last.pattern) = 21
    /\ Len(locations) > 0
    /\ context.residency = "EMEA"

-----------------------------------------------------------------------------
\* C19: a refresh of a node calls refresh on every one of its children,
\* whatever the earlier children returned: after a refresh of the tree no
\* child of a refreshed node was left out.
C19_EveryChildRefreshed ==
    last.op \in {"construct", "refresh"} =>
        \A n \in Nodes :
            last.log[n] /= "skipped" =>
                \A i \in 1..Len(Children(n)) : last.log[Children(n)[i]] /= "skipped"

-----------------------------------------------------------------------------
(* The menu when the application refreshes single items as well            *)

NextNode ==
    \/ \E n \in Nodes, resolve \in BOOLEAN : Refresh(n, resolve)
    \/ \E url \in Urls : SetCurrentUrl(url)
    \/ \E params \in ParameterSets : SetRouteParameters(params)

SpecNode == Init /\ [][NextNode]_vars

\* the nodes a refresh of n does not reach
Outside(n) == Nodes \ ({n} \cup Descendants(n))

-----------------------------------------------------------------------------
\* C21: a bubbling node projects into its parent only if it is enabled: a
\* refresh of a node with bubble and a parent that ends with the node's
\* visible=false leaves the parent's href and activated as they were.
C21_HiddenChildDoesNotBubble ==
    [][ last'.op = "refresh" =>
          LET n == last'.node
              p == Parent(n)
          IN (definition[n].bubble /\ p /= NoParent /\ route'[n].visible = FALSE) =>
                /\ route'[p].href = route[p].href
                /\ route'[p].activated = route[p].activated
      ]_vars

-----------------------------------------------------------------------------
\* whether a condition is evaluated internally when the rules in none
\* count for no rule
Internal(cond, none) == cond.rule \notin none /\ cond.hasConditions

\* the positions of the conditions below cond that are not evaluated
\* internally while every condition above them is; a position is the list
\* of the indexes that lead to it
RECURSIVE LeafPaths(_, _)
LeafPaths(cond, none) ==
    IF Internal(cond, none)
    THEN UNION { { <<i>> \o p : p \in LeafPaths(cond.conditions[i], none) } :
                    i \in 1..Len(cond.conditions) }
    ELSE {<<>>}

RECURSIVE ConditionAt(_, _)
ConditionAt(cond, path) ==
    IF path = <<>> THEN cond
    ELSE ConditionAt(cond.conditions[Head(path)], Tail(path))

\* host.evaluate was called once for every position of LeafPaths, with the
\* condition at that position, and for nothing else
CalledOncePerLeaf(calls, cond, none) ==
    /\ Len(calls) = Cardinality(LeafPaths(cond, none))
    /\ \A k \in 1..Len(calls) :
          Cardinality({j \in 1..Len(calls) : calls[j] = calls[k]}) =
              Cardinality({p \in LeafPaths(cond, none) :
                              ConditionAt(cond, p) = calls[k]})

\* C22 as claimed: a condition with no rule or no conditions list is a
\* leaf and evaluateCondition returns host.evaluate of it; a condition with
\* a rule and a conditions list, empty or not, is evaluated internally and
\* host.evaluate is called on its leaf descendants only, once for each.
C22_LeafIffNoRuleOrNoList ==
    last.op = "evaluateCondition" =>
        /\ ~Internal(condition, {NoRule}) =>
              last.ret = JsBool(hostEvaluate(condition))
        /\ Internal(condition, {NoRule}) =>
              last.ret = JsBool(ExpectedOfRule(condition))
        /\ CalledOncePerLeaf(last.calls, condition, {NoRule})

\* C22, amended: the same with a rule that is the empty string counted as
\* no rule.
C22_LeafIffNoTruthyRuleOrNoList ==
    last.op = "evaluateCondition" =>
        /\ ~Internal(condition, {NoRule, ""}) =>
              last.ret = JsBool(hostEvaluate(condition))
        /\ Internal(condition, {NoRule, ""}) =>
              last.ret = JsBool(ExpectedOfRule(condition))
        /\ CalledOncePerLeaf(last.calls, condition, {NoRule, ""})

\* an 'any' over a leaf that passes and a group of two leaves was
\* evaluated: three calls of host.evaluate, two of them for the same leaf
C22_Witness ==
    /\ last.op = "evaluateCondition"
    /\ condition.rule = "any"
    /\ condition.conditions = <<Leaf("a"), Group("any", <<Leaf("a"), Leaf("b")>>)>>
    /\ entitlements["a"]
    /\ Len(last.calls) = 3

-----------------------------------------------------------------------------
(* The menu the activation test is checked on: hrefs with a query string,  *)
(* items with match patterns, and URLs that are the href, a part of it or  *)
(* more than it.                                                           *)

pathQuery == <<"/", "a", "?", "q">>

ItemQuery == WithLink(Plain("Query"), OverviewUI, pathQuery)

\* an item with two patterns besides its href
ItemPatterns ==
    WithMatches(WithLink(Plain("Patterns"), OverviewUI, pathA),
                << pathB, <<"/", "c", ".", "*">> >>)

ActivationItemsAt(n) ==
    CASE n = 2 -> {ItemMatches, ItemPatterns, ItemGroup, ItemQuery}
      [] n = 3 -> {ItemOverview, ItemQuery}
      [] OTHER -> {ItemOverview, ItemParam, WithBubble(ItemQuery)}

ActivationDefinitions ==
    { [n \in Nodes |-> IF n = Root THEN Plain("Test Menu") ELSE f[n]] :
        f \in { g \in [Nodes \ {Root} ->
                          UNION {ActivationItemsAt(n) : n \in Nodes \ {Root}}] :
                    \A n \in Nodes \ {Root} : g[n] \in ActivationItemsAt(n) } }

ActivationUrls ==
    { uriOverviewUS,
      uriOverviewUS \o pathA,
      uriOverviewUS \o pathQuery,
      uriOverviewUS \o pathB,
      uriOverviewUS \o <<"/", "c", "/", "x">>,
      uriIncidentsUS \o pathA }

InitActivation ==
    /\ currentUrl \in ActivationUrls
    /\ routeParameters \in ParameterSets
    /\ entitlements \in EntitlementSets
    /\ locations = NodesBoth
    /\ context = DefaultContext
    /\ condition = NoCondition
    /\ Construct(ActivationDefinitions)

NextActivation ==
    \/ \E n \in Nodes, resolve \in BOOLEAN : Refresh(n, resolve)
    \/ \E url \in ActivationUrls : SetCurrentUrl(url)

SpecActivation == InitActivation /\ [][NextActivation]_vars

\* the text before the first '?', the whole text when it has none
BeforeQuery(text) ==
    IF \E i \in 1..Len(text) : text[i] = "?"
    THEN SubSeq(text, 1, (CHOOSE i \in 1..Len(text) :
                             /\ text[i] = "?"
                             /\ \A j \in 1..(i - 1) : text[j] /= "?") - 1)
    ELSE text

\* a child of n that the refresh reached is activated
ChildReported(n) ==
    \E i \in 1..Len(Children(n)) :
        /\ last.log[Children(n)[i]] /= "skipped"
        /\ route[Children(n)[i]].activated = JsTrue

\* what the claim asks of a node for its own-match test to activate it
C23_Matches(n) ==
    /\ route[n].href /= Null
    /\ route[n].href /= <<>>
    /\ route[n].baseHREF /= Null
    /\ Len(route[n].baseHREF) <= Len(currentUrl)
    /\ \A i \in 1..Len(route[n].baseHREF) : currentUrl[i] = route[n].baseHREF[i]
    /\ \/ currentUrl = BeforeQuery(route[n].href)
       \/ /\ definition[n].hasMatches
          /\ \E m \in 1..Len(definition[n].matches) :
                RegExpTest(<<"^">> \o route[n].baseHREF \o definition[n].matches[m]
                               \o <<"$">>,
                           currentUrl)

-----------------------------------------------------------------------------
(* The menu while the registry changes under it: descriptors are replaced, *)
(* the context moves, route parameters change, and the tree or one of its  *)
(* items is refreshed.                                                     *)

NextCache ==
    \/ \E n \in {Root, 2}, resolve \in BOOLEAN : Refresh(n, resolve)
    \/ \E params \in ParameterSets : SetRouteParameters(params)
    \/ \E url \in ActingUris : setActingUri(url)
    \/ \E descriptors \in LocationSets : setLocations(descriptors)

SpecCache == Init /\ [][NextCache]_vars

\* no child of n bubbles into it
NoBubblingChild(n) ==
    \A i \in 1..Len(Children(n)) : ~definition[Children(n)[i]].bubble

\* C24: the resolved href is cached: a refresh(false) leaves the href and
\* baseHREF of a node without bubbling children whose href is not null as
\* they were, whatever became of the route parameters, the descriptors and
\* the context; such a node is resolved again only by a refresh(true) or
\* while its href is null.
C24_HrefCached ==
    [][ last'.op = "refresh" =>
          \A n \in Nodes :
              NoBubblingChild(n) =>
                  /\ (~last'.resolve /\ route[n].href /= Null) =>
                        /\ route'[n].href = route[n].href
                        /\ route'[n].baseHREF = route[n].baseHREF
                  /\ last'.log[n] \in {"unknown", "missing", "resolved"} =>
                        (last'.resolve \/ route[n].href = Null)
      ]_vars

\* a refresh(false) reached a link that was resolved in the production
\* context, after the context moved to integration, the descriptors were
\* replaced and the route parameter it was resolved with was removed
C24_Witness ==
    /\ last.op = "refresh"
    /\ ~last.resolve
    /\ context.environment = "integration"
    /\ locations = NodesOverview
    /\ routeParameters = <<>>
    /\ \E n \in Nodes :
          /\ NoBubblingChild(n)
          /\ last.log[n] = "cached"
          /\ route[n].href = uriOverviewUS \o <<"/", "b">>
          /\ definition[n].action.path = pathParam

-----------------------------------------------------------------------------
\* C25: after a refresh(true) of the root, the constructor's included,
\* every visible node with a link action has the baseHREF of the descriptor
\* getNode returns for its location in the current context, whatever
\* changes of the registry and of the host came before.
C25_VisibleLinksFollowContext ==
    RootResolved =>
        \A n \in Nodes :
            (route[n].visible /\ IsLink(n)) =>
                /\ LocationOf(n) /= NoNode
                /\ route[n].baseHREF = LocationOf(n).uri

-----------------------------------------------------------------------------
(* The menu with properties: items are refreshed, and properties are set,  *)
(* deleted and read on the innermost of them.                              *)

\* the menu of a group over a parameterised link, and a link, with every
\* choice of definition.properties for the innermost item, and two for
\* the root
TreeDefinitions ==
    { [n \in Nodes |->
          [ (CASE n = Root -> Plain("Test Menu")
               [] n = 2 -> ItemGroup
               [] n = 3 -> ItemOverview
               [] OTHER -> ItemParam)
            EXCEPT !.hasProperties = f[n].hasProperties,
                   !.properties = f[n].properties ]] :
        f \in { g \in [Nodes -> PropertySets] :
                    /\ \A n \in Nodes \ PropertyNodes : g[n] = NoProperties
                    /\ g[Root] \in {NoProperties, Properties("kevin" :> "default")} } }

InitTree ==
    /\ currentUrl = uriOverviewUS \o pathB
    /\ routeParameters \in ParameterSets
    /\ entitlements = ("a" :> FALSE)
    /\ locations = NodesBoth
    /\ context = DefaultContext
    /\ condition = NoCondition
    /\ Construct(TreeDefinitions)

NextTree ==
    \/ \E n \in PropertyNodes, resolve \in BOOLEAN : Refresh(n, resolve)
    \/ \E params \in ParameterSets : SetRouteParameters(params)
    \/ \E n \in PropertyNodes \ {Root}, name \in PropNames,
           value \in {"was-here", JsUndefined} :
          setProperty(n, name, value)
    \/ \E n \in PropertyNodes \ {Root}, name \in PropNames : deleteProperty(n, name)
    \/ \E n \in PropertyNodes \ {Root}, name \in PropNames : GetProperty(n, name, "null")

SpecTree == InitTree /\ [][NextTree]_vars

\* C26: the node tree mirrors the definition tree: every node has one
\* child for each child of its definition, in the definition's order, each
\* child has the node for parent and the root has none; and no refresh,
\* setProperty, deleteProperty or getProperty changes a node's children,
\* its parent, or its definition, definition.properties included.
C26_TreeFixed ==
    /\ \A n \in Nodes :
          /\ Len(tree[n].children) = Len(DefChildren(n))
          /\ \A i \in 1..Len(DefChildren(n)) :
                /\ tree[n].children[i] = DefChildren(n)[i]
                /\ tree[tree[n].children[i]].parent = n
    /\ tree[Root].parent = NoParent
    /\ [][ \A n \in Nodes :
              /\ tree'[n].children = tree[n].children
              /\ tree'[n].parent = tree[n].parent
              /\ definition'[n] = definition[n]
         ]_vars

\* a property that the definition gives was set on the innermost item
\* after a refresh had bubbled the item's href into its parent
C26_Witness ==
    /\ last.op = "setProperty"
    /\ last.node = 4
    /\ last.value = "was-here"
    /\ definition[4].hasProperties
    /\ last.name \in DOMAIN definition[4].properties
    /\ properties[4] /= definition[4].properties
    /\ route[2].href = uriOverviewUS \o pathB
    /\ Len(tree[Root].children) = 2

-----------------------------------------------------------------------------
\* C27: with the host as it is, a refresh(false) of the root that directly
\* follows a refresh(true) of the root (the constructor's included) changes
\* nothing: every node keeps its visible, activated, href and baseHREF.
C27_RefreshFalseAfterTrueChangesNothing ==
    [][ (RootResolved /\ last'.op = "refresh" /\ last'.node = Root /\ ~last'.resolve)
            => \A n \in Nodes :
                  /\ route'[n].visible = route[n].visible
                  /\ route'[n].activated = route[n].activated
                  /\ route'[n].href = route[n].href
                  /\ route'[n].baseHREF = route[n].baseHREF
      ]_vars

-----------------------------------------------------------------------------
\* the names definition.properties of node n gives a value
DefinedNames(n) ==
    IF definition[n].hasProperties THEN DOMAIN definition[n].properties ELSE {}

\* a default that is no property's value
FreshDefault == "<default>"

\* C28: after the constructor and any setProperty and deleteProperty calls,
\* every key of definition.properties is a key of the node's overlay, and
\* getProperty of such a name returns the overlay's value, never the
\* default handed to it.
C28_DefinedNamesStayInOverlay ==
    /\ \A n \in Nodes :
          \A name \in DefinedNames(n) :
              /\ name \in DOMAIN properties[n]
              /\ getProperty(n, name, FreshDefault) /= FreshDefault
    /\ (last.op = "getProperty" /\ last.name \in DefinedNames(last.node)) =>
          last.ret = properties[last.node][last.name]

\* getProperty read null, set over the definition's value, with false for
\* default, on a node whose definition gives two names
C28_Witness ==
    /\ last.op = "getProperty"
    /\ last.name = "kevin"
    /\ DefinedNames(last.node) = {"kevin", "hair"}
    /\ properties[last.node]["kevin"] = "null"
    /\ last.value = "false"
    /\ last.ret = "null"

====
